---- MODULE Spec2Model ----
(***************************************************************************)
(* Model of jppy's tokenizer router (src/jppy/tokenizer.py): the session   *)
(* store `backend`, the `verifier` dependency and the four handlers        *)
(* create / tokenize / finalize / destroy.                                 *)
(*                                                                         *)
(* Strings that are joined or compared character-wise (normalized form,    *)
(* part-of-speech sub-tags, identity keys) are sequences of one-character  *)
(* strings; dictionary forms and readings are only ever compared whole and *)
(* are plain strings.  A dict is a sequence of [id, v] entries in          *)
(* insertion order, as Python's dict iterates.                             *)
(***************************************************************************)
EXTENDS Integers, Sequences, FiniteSets, TLC

(***************************************************************************)
(* Bounds                                                                  *)
(***************************************************************************)
MaxSessions == 2        \* session ids uuid4 hands out: 1..MaxSessions
MaxText == 2            \* morphemes the segmenter yields for one text
MaxCalls == 2           \* tokenize calls in which a session takes a split text
MaxExclude == 2         \* length of the exclude list given to create
MaxTags == 2            \* sub-tags in the part of speech of a morpheme, for the key

(***************************************************************************)
(* Inputs: the morphemes the external segmenter can yield                  *)
(***************************************************************************)
Noun == << <<"N">>, <<"*">>, <<"c">> >>

NekoHira == [dictionary_form |-> "neko", normalized_form |-> <<"n">>,
             reading_form |-> "ne", part_of_speech |-> Noun]

NekoKata == [dictionary_form |-> "neko", normalized_form |-> <<"n">>,
             reading_form |-> "NE", part_of_speech |-> Noun]

Inu == [dictionary_form |-> "inu", normalized_form |-> <<"i">>,
        reading_form |-> "in", part_of_speech |-> Noun]

Morphemes == {NekoHira, NekoKata, Inu}

RECURSIVE SeqsUpTo(_, _)
SeqsUpTo(S, n) ==
    IF n = 0 THEN {<<>>}
    ELSE LET shorter == SeqsUpTo(S, n - 1)
         IN  shorter \cup {Append(q, x) : q \in {p \in shorter : Len(p) = n - 1}, x \in S}

Texts == SeqsUpTo(Morphemes, MaxText)

Range(f) == {f[i] : i \in DOMAIN f}

\* morphemes over every short part of speech, placeholders included, for the
\* identity key: two normalized forms, two readings, two dictionary forms
SubTags == {<<"N">>, <<"c">>, <<"*">>}

KeyMorphemes ==
    [dictionary_form : {"neko", "inu"}, normalized_form : {<<"n">>, <<"i">>},
     reading_form : {"ne", "NE"}, part_of_speech : SeqsUpTo(SubTags, MaxTags)]

KeyTexts == {<<a, b>> : a \in KeyMorphemes, b \in KeyMorphemes}

(***************************************************************************)
(* Tokenizer helpers (pure)                                                *)
(***************************************************************************)
Placeholder == <<"*">>
PosSeparator == <<".">>
IdSeparator == <<"\t">>

RECURSIVE Join(_, _)
Join(parts, sep) ==
    IF parts = <<>> THEN <<>>
    ELSE IF Len(parts) = 1 THEN parts[1]
    ELSE parts[1] \o sep \o Join(Tail(parts), sep)

morphome_to_pos(m) ==
    Join(SelectSeq(m.part_of_speech, LAMBDA x : x # Placeholder), PosSeparator)

morpheme_to_token(m) ==
    [dictionary |-> m.dictionary_form,
     normalized |-> m.normalized_form,
     reading |-> <<m.reading_form>>,
     part_of_speech |-> morphome_to_pos(m),
     count |-> 1]

\* a key that also tells dictionary forms apart
token_to_id_dictionary(t) == t.normalized \o IdSeparator \o t.part_of_speech \o <<t.dictionary>>

token_to_id(t) == t.normalized \o IdSeparator \o t.part_of_speech

ExcludeTokens == {morpheme_to_token(NekoHira), morpheme_to_token(Inu)}
ExcludeLists == SeqsUpTo(ExcludeTokens, MaxExclude)

(***************************************************************************)
(* dict operations on a sequence of [id, v] entries                        *)
(***************************************************************************)
Keys(items) == {items[i].id : i \in DOMAIN items}

HasKey(items, id) == \E i \in DOMAIN items : items[i].id = id

dict_get(items, id) ==
    (CHOOSE i \in DOMAIN items : items[i].id = id)

dict_set(items, id, v) ==
    IF HasKey(items, id)
    THEN [i \in DOMAIN items |-> IF items[i].id = id THEN [id |-> id, v |-> v] ELSE items[i]]
    ELSE Append(items, [id |-> id, v |-> v])

Value(items, id) == items[dict_get(items, id)].v

(***************************************************************************)
(* SessionData and the loop of tokenize                                    *)
(***************************************************************************)
SessionData(exclude) == [exclude |-> exclude, items |-> <<>>]

\* a loop that keeps the readings as a set: a reading already stored is not appended
tokenize_step_set(data, m) ==
    LET not_allowed == data.exclude
        items == data.items
        t == morpheme_to_token(m)
        id == token_to_id(t)
    IN  IF id \in not_allowed THEN data
        ELSE LET v == IF HasKey(items, id)
                      THEN [Value(items, id) EXCEPT
                               !.reading = IF t.reading[1] \in Range(@) THEN @
                                           ELSE Append(@, t.reading[1]),
                               !.count = @ + 1]
                      ELSE t
             IN  [data EXCEPT !.items = dict_set(items, id, v)]

\* a loop that appends the reading of a known key without counting it
tokenize_step_uncounted(data, m) ==
    LET not_allowed == data.exclude
        items == data.items
        t == morpheme_to_token(m)
        id == token_to_id(t)
    IN  IF id \in not_allowed THEN data
        ELSE LET v == IF HasKey(items, id)
                      THEN [Value(items, id) EXCEPT !.reading = Append(@, t.reading[1])]
                      ELSE t
             IN  [data EXCEPT !.items = dict_set(items, id, v)]

\* a loop that also notes every key it has taken in the exclusions
tokenize_step_notes(data, m) ==
    LET not_allowed == data.exclude
        items == data.items
        t == morpheme_to_token(m)
        id == token_to_id(t)
    IN  IF id \in not_allowed THEN data
        ELSE LET v == IF HasKey(items, id)
                      THEN [Value(items, id) EXCEPT
                               !.reading = Append(@, t.reading[1]),
                               !.count = @ + 1]
                      ELSE t
             IN  [exclude |-> data.exclude \cup {id}, items |-> dict_set(items, id, v)]

tokenize_step(data, m) ==
    LET not_allowed == data.exclude
        items == data.items
        t == morpheme_to_token(m)
        id == token_to_id(t)
    IN  IF id \in not_allowed THEN data
        ELSE LET v == IF HasKey(items, id)
                      THEN [Value(items, id) EXCEPT
                               !.reading = Append(@, t.reading[1]),
                               !.count = @ + 1]
                      ELSE t
             IN  [data EXCEPT !.items = dict_set(items, id, v)]

RECURSIVE tokenize_loop(_, _)
tokenize_loop(data, text) ==
    IF text = <<>> THEN data
    ELSE tokenize_loop(tokenize_step(data, Head(text)), Tail(text))

(***************************************************************************)
(* finalize's sort: list.sort(key=sorter) is a stable ascending sort by    *)
(* -count; sorter also replaces each reading list by list(set(reading)),   *)
(* whose order is whatever the set iterates in.                            *)
(***************************************************************************)
Perms(S) ==
    {p \in [1..Cardinality(S) -> S] : \A x \in S : \E i \in DOMAIN p : p[i] = x}

sorter_key(v) == 0 - v.count

sorter_readings(v) == Perms(Range(v.reading))

RECURSIVE insert_sorted(_, _)
insert_sorted(sorted, v) ==
    IF sorted = <<>> THEN <<v>>
    ELSE IF sorter_key(sorted[Len(sorted)]) <= sorter_key(v) THEN Append(sorted, v)
    ELSE Append(insert_sorted(SubSeq(sorted, 1, Len(sorted) - 1), v), sorted[Len(sorted)])

RECURSIVE list_sort(_)
list_sort(values) ==
    IF values = <<>> THEN <<>>
    ELSE insert_sorted(list_sort(SubSeq(values, 1, Len(values) - 1)), values[Len(values)])

dict_values(items) == [i \in DOMAIN items |-> items[i].v]

\* every list the sort can leave behind: one choice of reading order per value
sorted_values(items) ==
    LET vals == dict_values(items)
        choices == {c \in [DOMAIN vals -> UNION {sorter_readings(vals[i]) : i \in DOMAIN vals}] :
                        \A i \in DOMAIN vals : c[i] \in sorter_readings(vals[i])}
    IN  {list_sort([i \in DOMAIN vals |-> [vals[i] EXCEPT !.reading = c[i]]]) : c \in choices}

(***************************************************************************)
(* State.  Every handler is a coroutine on one event loop and none of them *)
(* suspends between the verifier's read and its last use of the backend,   *)
(* so a request is one atomic step; concurrent requests are the            *)
(* interleavings of these steps.  A request may carry any session id: the  *)
(* cookie's signing key outlives the in-memory backend.                    *)
(***************************************************************************)
VARIABLES
    backend,    \* InMemoryBackend.data: live session id -> SessionData
    issued,     \* number of session ids uuid4 has handed out
    resp,       \* the request handled last: its session id, exclude list, locals and outcome
    calls,      \* history: per live session id, the texts of its tokenize calls, in order
    ended       \* history: per session id, how its session ended ("no" while it has not)

vars == <<backend, issued, resp, calls, ended>>

Ids == 1..MaxSessions

None == [exclude |-> {}, items |-> <<>>, none |-> TRUE]

\* outcomes of a request
Ok == "ok"
InvalidSession == "403 invalid session"
KeyError == "KeyError"
ValidationError == "ValidationError"

\* the value a handler hands to its response model
NoResult == [kind |-> "unset", list |-> <<>>]
NoneResult == [kind |-> "None", list |-> <<>>]
SuccessResponse == [kind |-> "True", list |-> <<>>]

NoRequest == [op |-> "none", id |-> 0, exclude |-> <<>>, session_data |-> None,
              outcome |-> "none", result |-> NoResult]

Request(op, id, session_data, outcome, result) ==
    [op |-> op, id |-> id, exclude |-> <<>>, session_data |-> session_data,
     outcome |-> outcome, result |-> result]

Init ==
    /\ backend = <<>>
    /\ issued = 0
    /\ resp = NoRequest
    /\ calls = [i \in Ids |-> <<>>]
    /\ ended = [i \in Ids |-> "no"]

Live(id) == id \in DOMAIN backend

(***************************************************************************)
(* InMemoryBackend and the verifier                                        *)
(***************************************************************************)
backend_create(b, id, data) == [i \in DOMAIN b \cup {id} |-> IF i = id THEN data ELSE b[i]]

\* read returns a deep copy of the stored model (None for a missing id): what
\* the caller does to the copy reaches the store only through update
backend_read(b, id) == IF id \in DOMAIN b THEN b[id] ELSE None

\* a delete that empties the whole table
backend_delete_all(b, id) == [i \in {} |-> b[i]]

\* del self.data[session_id]
backend_delete(b, id) == [i \in DOMAIN b \ {id} |-> b[i]]

\* a verifier that lets an unknown id through with an empty session
verifier_lenient(b, id) == IF id \in DOMAIN b THEN b[id] ELSE SessionData({})

\* Depends(verifier): the session data, or None when auth_http_exception is raised
verifier(b, id) == backend_read(b, id)

(***************************************************************************)
(* Handlers                                                                *)
(***************************************************************************)
\* an exclusion set made of the first supplied token only
set_of_ids_first(exclude) == IF exclude = <<>> THEN {} ELSE {token_to_id(exclude[1])}

\* set(map(lambda r: token_to_id(r), exclude)); the list made of it is only ever
\* turned back into a set
set_of_ids(exclude) == {token_to_id(exclude[i]) : i \in DOMAIN exclude}

create(exclude) ==
    /\ issued < MaxSessions
    /\ LET session == issued + 1
           data == SessionData(set_of_ids(exclude))
       IN  /\ backend' = backend_create(backend, session, data)
           /\ issued' = session
           /\ resp' = [Request("create", session, data, Ok, SuccessResponse)
                          EXCEPT !.exclude = exclude]
    /\ UNCHANGED <<calls, ended>>

\* a handler that stores what this call found, starting from an empty dict
tokenize_overwrite(id, text) ==
    LET session_data == verifier(backend, id)
    IN  IF session_data = None
        THEN /\ resp' = Request("tokenize", id, None, InvalidSession, NoResult)
             /\ UNCHANGED <<backend, issued, calls, ended>>
        ELSE LET found == tokenize_loop(SessionData(session_data.exclude), text)
             IN  /\ resp' = Request("tokenize", id, found, Ok, SuccessResponse)
                 /\ backend' = [backend EXCEPT ![id] = found]
                 /\ calls' = [calls EXCEPT ![id] = Append(@, text)]
                 /\ UNCHANGED <<issued, ended>>

tokenize(id, text) ==
    LET session_data == verifier(backend, id)
    IN  IF session_data = None
        THEN /\ resp' = Request("tokenize", id, None, InvalidSession, NoResult)
             /\ UNCHANGED <<backend, issued, calls, ended>>
        ELSE \* the loop works on the verifier's copy; nothing is handed back to the backend
             /\ resp' = Request("tokenize", id, tokenize_loop(session_data, text),
                                Ok, SuccessResponse)
             /\ calls' = [calls EXCEPT ![id] = Append(@, text)]
             /\ UNCHANGED <<backend, issued, ended>>

\* a finalize that builds its response before it deletes the session
finalize_respond_first(id) ==
    LET session_data == verifier(backend, id)
    IN  IF session_data = None
        THEN /\ resp' = Request("finalize", id, None, InvalidSession, NoResult)
             /\ UNCHANGED <<backend, issued, calls, ended>>
        ELSE /\ resp' = Request("finalize", id, session_data, ValidationError, NoneResult)
             /\ UNCHANGED <<backend, issued, calls, ended>>

finalize(id) ==
    LET session_data == verifier(backend, id)
    IN  IF session_data = None
        THEN /\ resp' = Request("finalize", id, None, InvalidSession, NoResult)
             /\ UNCHANGED <<backend, issued, calls, ended>>
        ELSE \E sorted \in sorted_values(session_data.items) :
                \* sorter has rewritten the reading of every value; list.sort returns None,
                \* which OutputResponse(result=...) rejects after the session is deleted
                LET after == [session_data EXCEPT !.items =
                                 [i \in DOMAIN @ |-> [@[i] EXCEPT !.v =
                                     sorted[CHOOSE j \in DOMAIN sorted : token_to_id(sorted[j]) = @[i].id]]]]
                    result == NoneResult
                IN  /\ backend' = backend_delete(backend, id)
                    /\ calls' = [calls EXCEPT ![id] = <<>>]
                    /\ ended' = [ended EXCEPT ![id] = "finalized"]
                    /\ resp' = Request("finalize", id, after, ValidationError, result)
                    /\ UNCHANGED issued

destroy(id) ==
    IF Live(id)
    THEN /\ backend' = backend_delete(backend, id)
         /\ calls' = [calls EXCEPT ![id] = <<>>]
         /\ ended' = [ended EXCEPT ![id] = "destroyed"]
         /\ resp' = Request("destroy", id, None, Ok, SuccessResponse)
         /\ UNCHANGED issued
    ELSE \* del self.data[session_id] on a missing id
         /\ resp' = Request("destroy", id, None, KeyError, NoResult)
         /\ UNCHANGED <<backend, issued, calls, ended>>

RECURSIVE Recorded(_)
Recorded(n) == IF n = 0 THEN 0 ELSE Len(calls[n]) + Recorded(n - 1)

\* the history holds one call at a time: a live session takes a text while no call
\* of a live session is on record
MayRecord(id) == Live(id) => Recorded(MaxSessions) = 0

Next ==
    \/ \E exclude \in ExcludeLists : create(exclude)
    \/ \E id \in Ids, text \in Texts : MayRecord(id) /\ tokenize(id, text)
    \/ \E id \in Ids : finalize(id)
    \/ \E id \in Ids : destroy(id)

Spec == Init /\ [][Next]_vars

RECURSIVE Flatten(_)
Flatten(texts) == IF texts = <<>> THEN <<>> ELSE Head(texts) \o Flatten(Tail(texts))

IsPrefix(p, q) == Len(p) <= Len(q) /\ SubSeq(q, 1, Len(p)) = p

\* the specification of split submissions: every session has the exclusions of
\* session 1, session 1 takes one text whole, and the other sessions take the same
\* text piece by piece, in up to MaxCalls calls
NextSplit ==
    \/ \E exclude \in ExcludeLists :
          /\ Live(1) => set_of_ids(exclude) = backend[1].exclude
          /\ create(exclude)
    \/ \E text \in Texts : Live(1) /\ calls[1] = <<>> /\ tokenize(1, text)
    \/ \E id \in Ids \ {1}, text \in Texts :
          /\ Live(id)
          /\ calls[1] # <<>>
          /\ Len(calls[id]) < MaxCalls
          /\ IsPrefix(Flatten(calls[id]) \o text, calls[1][1])
          /\ tokenize(id, text)

SpecSplit == Init /\ [][NextSplit]_vars

\* the specification of swapped submissions: every session has the exclusions of
\* session 1, session 1 takes two texts, and the other sessions take the same two
\* texts in the other order
NextCommute ==
    \/ \E exclude \in ExcludeLists :
          /\ Live(1) => set_of_ids(exclude) = backend[1].exclude
          /\ create(exclude)
    \/ \E text \in Texts : Live(1) /\ Len(calls[1]) < 2 /\ tokenize(1, text)
    \/ \E id \in Ids \ {1}, text \in Texts :
          /\ Live(id)
          /\ Len(calls[1]) = 2
          /\ Len(calls[id]) < 2
          /\ text = calls[1][2 - Len(calls[id])]
          /\ tokenize(id, text)

SpecCommute == Init /\ [][NextCommute]_vars

\* the specification of the identity key: one session without exclusions takes
\* one text of two morphemes drawn from KeyMorphemes
NextKey ==
    \/ issued = 0 /\ create(<<>>)
    \/ /\ Live(1)
       /\ calls[1] = <<>>
       /\ \E text \in KeyTexts : tokenize(1, text)

SpecKey == Init /\ [][NextKey]_vars

TypeOK ==
    /\ issued \in 0..MaxSessions
    /\ DOMAIN backend \subseteq 1..issued
    /\ \A id \in Ids : ended[id] # "no" => ~Live(id)

(***************************************************************************)
(* Vocabulary of the properties                                            *)
(***************************************************************************)
SessionNotFound == InvalidSession

\* the text of the tokenize call handled last on a session
LastText(history) == history[Len(history)]

KeyOf(m) == token_to_id(morpheme_to_token(m))

AcceptedOf(exclude, text) == SelectSeq(text, LAMBDA m : KeyOf(m) \notin exclude)

WithKey(k, text) == SelectSeq(text, LAMBDA m : KeyOf(m) = k)

ReadingsOf(k, text) == [i \in DOMAIN WithKey(k, text) |-> WithKey(k, text)[i].reading_form]

Entries(items, k) == {i \in DOMAIN items : items[i].id = k}

SameItems(a, b) ==
    /\ Keys(a) = Keys(b)
    /\ \A k \in Keys(a) :
          /\ Value(a, k).count = Value(b, k).count
          /\ Range(Value(a, k).reading) = Range(Value(b, k).reading)

ListResult(list) == [kind |-> "list", list |-> list]

\* code-point order of the characters in use ("." stands for U+30FB, above the letters)
Alphabet == <<"\t", "*", "N", "c", "i", "n", ".">>
Ord(c) == CHOOSE i \in DOMAIN Alphabet : Alphabet[i] = c

RECURSIVE LexLess(_, _)
LexLess(a, b) ==
    IF b = <<>> THEN FALSE
    ELSE IF a = <<>> THEN TRUE
    ELSE IF Ord(Head(a)) # Ord(Head(b)) THEN Ord(Head(a)) < Ord(Head(b))
    ELSE LexLess(Tail(a), Tail(b))

TotalOrderLess(v, w) ==
    \/ 0 - v.count < 0 - w.count
    \/ v.count = w.count /\ LexLess(v.normalized, w.normalized)
    \/ v.count = w.count /\ v.normalized = w.normalized
          /\ LexLess(v.part_of_speech, w.part_of_speech)

(***************************************************************************)
(* C1. Merge effects are cumulative: in every live session, each identity  *)
(* key that occurred n >= 1 times among the accepted (non-excluded)        *)
(* morphemes of the session's tokenize calls has exactly one Token in the  *)
(* session's items, and its count is n.                                    *)
(***************************************************************************)
C1_MergeCumulative ==
    \A id \in DOMAIN backend :
        LET accepted == AcceptedOf(backend[id].exclude, Flatten(calls[id]))
        IN  \A k \in {KeyOf(accepted[i]) : i \in DOMAIN accepted} :
                /\ Cardinality(Entries(backend[id].items, k)) = 1
                /\ Value(backend[id].items, k).count = Len(WithKey(k, accepted))

(***************************************************************************)
(* C2. Split-invariance: a session that merged T[0..p) and then T[p..] in  *)
(* two calls holds the same items (keys, counts, reading sets) as a        *)
(* session with the same exclusions that merged T in one call.             *)
(***************************************************************************)
SplitPair(whole, split) ==
    /\ whole # split
    /\ backend[whole].exclude = backend[split].exclude
    /\ Len(calls[whole]) = 1
    /\ Len(calls[split]) = 2
    /\ Flatten(calls[split]) = calls[whole][1]

C2_SplitInvariance ==
    \A whole \in DOMAIN backend, split \in DOMAIN backend :
        SplitPair(whole, split) => SameItems(backend[whole].items, backend[split].items)

C2_Witness ==
    \E whole \in DOMAIN backend, split \in DOMAIN backend :
        /\ SplitPair(whole, split)
        /\ calls[split][1] # <<>>
        /\ calls[split][2] # <<>>
        /\ AcceptedOf(backend[whole].exclude, calls[whole][1]) = calls[whole][1]
        /\ KeyOf(calls[split][1][1]) = KeyOf(calls[split][2][1])

(***************************************************************************)
(* C3. Exclusion correctness: no excluded key is ever a key of its         *)
(* session's items; the excluded morphemes of a text change nothing of     *)
(* what tokenize computes; and a session whose merges supplied only        *)
(* excluded keys finalizes to an empty sequence.                           *)
(***************************************************************************)
C3_ExclusionCorrectness ==
    [][/\ \A id \in DOMAIN backend' : backend'[id].exclude \cap Keys(backend'[id].items) = {}
       /\ (resp'.op = "tokenize" /\ Live(resp'.id)) =>
             /\ resp'.session_data.exclude \cap Keys(resp'.session_data.items) = {}
             /\ resp'.session_data =
                   tokenize_loop(backend[resp'.id],
                                 AcceptedOf(backend[resp'.id].exclude, LastText(calls'[resp'.id])))
       /\ (/\ resp'.op = "finalize"
           /\ Live(resp'.id)
           /\ calls[resp'.id] # <<>>
           /\ Flatten(calls[resp'.id]) # <<>>
           /\ AcceptedOf(backend[resp'.id].exclude, Flatten(calls[resp'.id])) = <<>>) =>
             /\ resp'.outcome = Ok
             /\ resp'.result = ListResult(<<>>)
      ]_vars

(***************************************************************************)
(* C4. finalize on a live session returns a sequence holding every Token   *)
(* of the session's items exactly once, ordered by count descending.       *)
(***************************************************************************)
C4_FinalizeReturnsSorted ==
    [][(resp'.op = "finalize" /\ Live(resp'.id)) =>
          /\ resp'.outcome = Ok
          /\ resp'.result.kind = "list"
          /\ LET out == resp'.result.list
                 items == backend[resp'.id].items
             IN  /\ Len(out) = Len(items)
                 /\ \A k \in Keys(items) :
                       \E j \in DOMAIN out :
                           /\ token_to_id(out[j]) = k
                           /\ out[j].count = Value(items, k).count
                 /\ \A j \in 1..(Len(out) - 1) : out[j].count >= out[j + 1].count
      ]_vars

(***************************************************************************)
(* C5. Deterministic ordering: finalize returns the Tokens of the session  *)
(* in the total order (-count, normalizedForm, partOfSpeech) ascending, so *)
(* the output does not depend on the order of submission.                  *)
(***************************************************************************)
C5_DeterministicOrdering ==
    [][(resp'.op = "finalize" /\ Live(resp'.id)) =>
          /\ resp'.result.kind = "list"
          /\ {token_to_id(resp'.result.list[j]) : j \in DOMAIN resp'.result.list}
                = Keys(backend[resp'.id].items)
          /\ \A j \in 1..(Len(resp'.result.list) - 1) :
                TotalOrderLess(resp'.result.list[j], resp'.result.list[j + 1])
      ]_vars

(***************************************************************************)
(* C6. Finalize consumes: once finalize has run on a session id, every     *)
(* later tokenize, finalize or destroy on that id fails with               *)
(* SessionNotFound, the same kind for all three, and leaves the store as   *)
(* it was.                                                                 *)
(***************************************************************************)
C6_FinalizeConsumes ==
    [][(resp'.op \in {"tokenize", "finalize", "destroy"} /\ ended[resp'.id] = "finalized") =>
          /\ resp'.outcome = SessionNotFound
          /\ backend' = backend
      ]_vars

(***************************************************************************)
(* C7. destroy on a live id succeeds and removes the session; destroy on   *)
(* an id with no live entry (a second destroy, for one) fails with         *)
(* SessionNotFound and leaves the store unchanged.                         *)
(***************************************************************************)
C7_DestroyTwice ==
    [][resp'.op = "destroy" =>
          IF Live(resp'.id)
          THEN resp'.outcome = Ok /\ ~(resp'.id \in DOMAIN backend')
          ELSE resp'.outcome = SessionNotFound /\ backend' = backend
      ]_vars

(***************************************************************************)
(* C8. tokenize on a session id with no live entry fails with              *)
(* SessionNotFound, records no token, leaves every stored session          *)
(* unchanged and creates no session.                                       *)
(***************************************************************************)
C8_MergeUnknownSession ==
    [][(resp'.op = "tokenize" /\ ~Live(resp'.id)) =>
          /\ resp'.outcome = SessionNotFound
          /\ resp'.session_data = None
          /\ backend' = backend
          /\ calls' = calls
      ]_vars

C8_Witness ==
    /\ resp.op = "tokenize"
    /\ resp.outcome = SessionNotFound
    /\ ended[resp.id] = "finalized"
    /\ \E id \in Ids : Live(id)

(***************************************************************************)
(* C9 as stated: the readings a merge stores hold every reading once, with *)
(* count incremented per occurrence.                                       *)
(***************************************************************************)
C9_ReadingsSetSemantics ==
    (resp.op = "tokenize" /\ resp.outcome = Ok) =>
        \A i \in DOMAIN resp.session_data.items :
            LET v == resp.session_data.items[i].v
            IN  /\ Cardinality(Range(v.reading)) = Len(v.reading)
                /\ v.count = Len(WithKey(resp.session_data.items[i].id, LastText(calls[resp.id])))

(***************************************************************************)
(* C9, amended. In the session data a tokenize call works on, a morpheme   *)
(* whose key is already present appends its reading to the Token's reading *)
(* list, a reading already in the list included, and increments count by   *)
(* 1: after the call every key of the text has the count it had before     *)
(* plus its occurrences in the text, and its reading list is the one it    *)
(* had before followed by the readings of those occurrences in order.      *)
(***************************************************************************)
C9_ReadingsAppended ==
    [][(resp'.op = "tokenize" /\ Live(resp'.id)) =>
          LET before == backend[resp'.id].items
              after == resp'.session_data.items
              accepted == AcceptedOf(backend[resp'.id].exclude, LastText(calls'[resp'.id]))
          IN  \A k \in {KeyOf(accepted[i]) : i \in DOMAIN accepted} :
                  /\ Cardinality(Entries(after, k)) = 1
                  /\ Value(after, k).count =
                        (IF HasKey(before, k) THEN Value(before, k).count ELSE 0)
                           + Len(WithKey(k, accepted))
                  /\ Value(after, k).reading =
                        (IF HasKey(before, k) THEN Value(before, k).reading ELSE <<>>)
                           \o ReadingsOf(k, accepted)
      ]_vars

C9_Witness ==
    /\ resp.op = "tokenize"
    /\ resp.outcome = Ok
    /\ \E i \in DOMAIN resp.session_data.items :
          /\ resp.session_data.items[i].v.count = 2
          /\ resp.session_data.items[i].v.reading = <<"ne", "ne">>

(***************************************************************************)
(* C10. No lost update: after two tokenize calls on one session, the       *)
(* session's items are those of running the two loops one after the other: *)
(* each key's count is the sum of its occurrences in both texts and its    *)
(* readings their union.                                                   *)
(***************************************************************************)
C10_NoLostUpdate ==
    \A id \in DOMAIN backend :
        Len(calls[id]) = 2 =>
            SameItems(backend[id].items,
                      tokenize_loop(tokenize_loop(SessionData(backend[id].exclude),
                                                  calls[id][1]),
                                    calls[id][2]).items)

(***************************************************************************)
(* C11. A session's excluded set is fixed at creation: it is the set that  *)
(* create computed, and no tokenize call adds to it or removes from it,    *)
(* neither in the store nor in the session data the call works on.         *)
(***************************************************************************)
C11_ExcludedFixed ==
    [][/\ resp'.op = "create" => backend'[resp'.id].exclude = resp'.session_data.exclude
       /\ \A id \in DOMAIN backend \cap DOMAIN backend' :
             backend'[id].exclude = backend[id].exclude
       /\ (resp'.op = "tokenize" /\ Live(resp'.id)) =>
             /\ resp'.id \in DOMAIN backend'
             /\ resp'.session_data.exclude = backend[resp'.id].exclude
      ]_vars

C11_Witness ==
    /\ resp.op = "tokenize"
    /\ resp.outcome = Ok
    /\ Live(resp.id)
    /\ backend[resp.id].exclude # {}
    /\ resp.session_data.items # <<>>
    /\ AcceptedOf(backend[resp.id].exclude, LastText(calls[resp.id])) # LastText(calls[resp.id])

(***************************************************************************)
(* C12. Session isolation: a tokenize, finalize or destroy on one session  *)
(* id leaves every other session as it was: the other ids that were live   *)
(* stay live with the same items and the same excluded set, and no other   *)
(* id becomes live.                                                        *)
(***************************************************************************)
C12_SessionIsolation ==
    [][resp'.op \in {"tokenize", "finalize", "destroy"} =>
          \A other \in Ids \ {resp'.id} :
              /\ Live(other) <=> Live(other)'
              /\ Live(other) => backend'[other] = backend[other]
      ]_vars

C12_Witness ==
    /\ resp.op \in {"finalize", "destroy"}
    /\ ended[resp.id] # "no"
    /\ \E other \in Ids \ {resp.id} : Live(other) /\ backend[other].exclude # {}

(***************************************************************************)
(* C13. create stores, under a session id that was never live before, a    *)
(* session whose items is empty and whose excluded set is exactly the set  *)
(* of identity keys (normalized form, separator, part of speech) of the    *)
(* supplied exclude tokens, duplicates collapsed; the sessions already in  *)
(* the store are unchanged.                                                *)
(***************************************************************************)
C13_CreateStores ==
    [][resp'.op = "create" =>
          LET id == resp'.id
              supplied == resp'.exclude
          IN  /\ ~Live(id)
              /\ ended[id] = "no"
              /\ id > issued
              /\ id \in DOMAIN backend'
              /\ backend'[id].items = <<>>
              /\ \A k \in backend'[id].exclude :
                    \E i \in DOMAIN supplied :
                        k = supplied[i].normalized \o <<"\t">> \o supplied[i].part_of_speech
              /\ \A i \in DOMAIN supplied :
                    (supplied[i].normalized \o <<"\t">> \o supplied[i].part_of_speech)
                        \in backend'[id].exclude
              /\ \A other \in DOMAIN backend :
                    Live(other)' /\ backend'[other] = backend[other]
      ]_vars

C13_Witness ==
    /\ resp.op = "create"
    /\ Len(resp.exclude) = 2
    /\ resp.id = 2
    /\ Live(1)
    /\ Live(2)
    /\ Cardinality(backend[2].exclude) = 2
    /\ backend[1].exclude # backend[2].exclude

(***************************************************************************)
(* C14. Merge is commutative across calls: a session that took text A and  *)
(* then text B holds the same items (keys, counts, reading sets) as a      *)
(* session with the same exclusions that took B and then A.                *)
(***************************************************************************)
CommutePair(ab, ba) ==
    /\ ab # ba
    /\ backend[ab].exclude = backend[ba].exclude
    /\ Len(calls[ab]) = 2
    /\ Len(calls[ba]) = 2
    /\ calls[ba][1] = calls[ab][2]
    /\ calls[ba][2] = calls[ab][1]

C14_MergeCommutes ==
    \A ab \in DOMAIN backend, ba \in DOMAIN backend :
        CommutePair(ab, ba) => SameItems(backend[ab].items, backend[ba].items)

C14_Witness ==
    \E ab \in DOMAIN backend, ba \in DOMAIN backend :
        /\ CommutePair(ab, ba)
        /\ calls[ab][1] # calls[ab][2]
        /\ AcceptedOf(backend[ab].exclude, calls[ab][1]) # <<>>
        /\ AcceptedOf(backend[ab].exclude, calls[ab][2]) # <<>>
        /\ \E k \in {KeyOf(m) : m \in Morphemes} :
              /\ WithKey(k, calls[ab][1]) # <<>>
              /\ WithKey(k, calls[ab][2]) # <<>>
              /\ ReadingsOf(k, calls[ab][1]) # ReadingsOf(k, calls[ab][2])

(***************************************************************************)
(* C15. Every Token of a session's items has at least one reading in every *)
(* reachable state, and finalize returns, for every key merged into the    *)
(* session, a Token whose readings hold no duplicate and are exactly the   *)
(* distinct readings merged for that key.                                  *)
(***************************************************************************)
C15_ReadingsOfResult ==
    [][/\ \A id \in DOMAIN backend' :
             \A i \in DOMAIN backend'[id].items : backend'[id].items[i].v.reading # <<>>
       /\ (resp'.op = "tokenize" /\ Live(resp'.id)) =>
             \A i \in DOMAIN resp'.session_data.items :
                 resp'.session_data.items[i].v.reading # <<>>
       /\ (resp'.op = "finalize" /\ Live(resp'.id)) =>
             /\ resp'.result.kind = "list"
             /\ LET out == resp'.result.list
                    merged == AcceptedOf(backend[resp'.id].exclude, Flatten(calls[resp'.id]))
                IN  /\ \A j \in DOMAIN out :
                          Cardinality(Range(out[j].reading)) = Len(out[j].reading)
                    /\ \A k \in {KeyOf(merged[i]) : i \in DOMAIN merged} :
                          \E j \in DOMAIN out :
                              /\ token_to_id(out[j]) = k
                              /\ Range(out[j].reading) = Range(ReadingsOf(k, merged))
      ]_vars

(***************************************************************************)
(* C17. Of two finalize or destroy requests on the same live session,      *)
(* whichever runs first succeeds and leaves the session not live, and the  *)
(* one that runs after it fails with SessionNotFound and changes nothing;  *)
(* neither ends with any other kind of error.                              *)
(***************************************************************************)
C17_ExactlyOneSucceeds ==
    [][resp'.op \in {"finalize", "destroy"} =>
          /\ Live(resp'.id) =>
                /\ resp'.outcome = Ok
                /\ resp'.id \notin DOMAIN backend'
          /\ ended[resp'.id] # "no" =>
                /\ resp'.outcome = SessionNotFound
                /\ backend' = backend
      ]_vars

(***************************************************************************)
(* C18. finalize on a live session removes the session from the store and  *)
(* only then builds its response: after the step the session is not live,  *)
(* whatever the outcome of the request.                                    *)
(***************************************************************************)
C18_FinalizeDeletesFirst ==
    [][(resp'.op = "finalize" /\ Live(resp'.id)) =>
          /\ resp'.id \notin DOMAIN backend'
          /\ DOMAIN backend' = DOMAIN backend \ {resp'.id}
      ]_vars

C18_Witness ==
    /\ resp.op = "finalize"
    /\ resp.outcome = ValidationError
    /\ resp.result = NoneResult
    /\ resp.session_data # None
    /\ ~Live(resp.id)
    /\ ended[resp.id] = "finalized"

(***************************************************************************)
(* C19. In the session data tokenize works on, and in the store, every     *)
(* Token's reading list has as many entries as its count: one reading per  *)
(* accepted occurrence, duplicates kept.                                   *)
(***************************************************************************)
C19_ReadingPerOccurrence ==
    /\ \A id \in DOMAIN backend :
          \A i \in DOMAIN backend[id].items :
              Len(backend[id].items[i].v.reading) = backend[id].items[i].v.count
    /\ (resp.op = "tokenize" /\ resp.outcome = Ok) =>
          \A i \in DOMAIN resp.session_data.items :
              Len(resp.session_data.items[i].v.reading) = resp.session_data.items[i].v.count

C19_Witness ==
    /\ resp.op = "tokenize"
    /\ resp.outcome = Ok
    /\ \E i \in DOMAIN resp.session_data.items :
          LET v == resp.session_data.items[i].v
          IN  /\ v.count = 2
              /\ Len(v.reading) = 2
              /\ v.reading[1] = v.reading[2]
              /\ v.reading[1] = "NE"

(***************************************************************************)
(* C16. The identity key depends only on (normalized form, joined part of  *)
(* speech): two morphemes of one text fall under one key exactly when      *)
(* their normalized forms are equal and their joined parts of speech are   *)
(* equal, whatever their readings and dictionary forms (the separator      *)
(* being in neither field); the key is the normalized form, the separator  *)
(* and the joined part of speech; and the joined part of speech is the     *)
(* sub-tags other than the placeholder in their order, empty when every    *)
(* sub-tag is the placeholder.                                             *)
(***************************************************************************)
KeptTags(m) == SelectSeq(m.part_of_speech, LAMBDA x : x # <<"*">>)

\* pos is the one-character sub-tags kept of m with "." between neighbours
IsJoinedPos(pos, m) ==
    LET kept == KeptTags(m)
    IN  /\ Len(pos) = (IF kept = <<>> THEN 0 ELSE 2 * Len(kept) - 1)
        /\ \A i \in DOMAIN kept : pos[2 * i - 1] = kept[i][1]
        /\ \A i \in 1..(Len(kept) - 1) : pos[2 * i] = "."

NoSeparator(m) ==
    /\ "\t" \notin Range(m.normalized_form)
    /\ \A i \in DOMAIN m.part_of_speech : "\t" \notin Range(m.part_of_speech[i])

C16_KeyOfFormAndPos ==
    (/\ resp.op = "tokenize"
     /\ resp.outcome = Ok
     /\ resp.session_data.exclude = {}
     /\ Len(LastText(calls[resp.id])) = 2) =>
        LET a == LastText(calls[resp.id])[1]
            b == LastText(calls[resp.id])[2]
            items == resp.session_data.items
        IN  /\ IsJoinedPos(items[1].v.part_of_speech, a)
            /\ items[1].id = a.normalized_form \o <<"\t">> \o items[1].v.part_of_speech
            /\ (\A i \in DOMAIN a.part_of_speech : a.part_of_speech[i] = <<"*">>) =>
                  items[1].v.part_of_speech = <<>>
            /\ Len(items) = 2 =>
                  /\ IsJoinedPos(items[2].v.part_of_speech, b)
                  /\ items[2].id = b.normalized_form \o <<"\t">> \o items[2].v.part_of_speech
            /\ (NoSeparator(a) /\ NoSeparator(b)) =>
                  (Len(items) = 1 <=>
                      /\ a.normalized_form = b.normalized_form
                      /\ morphome_to_pos(a) = morphome_to_pos(b))

C16_Witness ==
    /\ resp.op = "tokenize"
    /\ resp.outcome = Ok
    /\ Len(LastText(calls[resp.id])) = 2
    /\ LET a == LastText(calls[resp.id])[1]
           b == LastText(calls[resp.id])[2]
       IN  /\ a.reading_form # b.reading_form
           /\ a.dictionary_form # b.dictionary_form
           /\ a.part_of_speech # b.part_of_speech
           /\ <<"*">> \in Range(a.part_of_speech)
           /\ KeptTags(a) # <<>>
           /\ Len(resp.session_data.items) = 1
           /\ resp.session_data.items[1].v.count = 2

====
